---- MODULE Spec2Model ----
(***************************************************************************)
(* Model of the integral Region data structure of the PTA library          *)
(* (src/pta/region.py) and of the call sequence of its unit test           *)
(* (src/tests/pta/test_region.py).                                         *)
(*                                                                         *)
(* A Region object is the tuple of its attributes: _is_int, _value_vector, *)
(* _fractional_ord, _num_frac, over a fixed clock set _clocks.  Python     *)
(* integers are unbounded; the model caps them with guards on the actions. *)
(* Representative values are floats in the source (a quotient by           *)
(* 2.0 * _num_frac); the model keeps them as exact fractions <<num, den>>. *)
(*                                                                         *)
(* The module also models the clock constraints and the delay solver       *)
(* (src/pta/clocks.py, specification SpecClocks) and the PTA with its      *)
(* drivers RegionMDP and MDP (src/pta/pta.py, src/pta/mdp/, specification  *)
(* SpecMDP).                                                               *)
(***************************************************************************)
EXTENDS Integers, Sequences, FiniteSets, TLC

VARIABLES clocks, is_int, value_vector, fractional_ord, num_frac, pc, pcf, last,
          cc, made, dl, pta, mloc, mcall, mdp

vars == <<clocks, is_int, value_vector, fractional_ord, num_frac, pc, pcf, last,
          cc, made, dl, pta, mloc, mcall, mdp>>

(* The variables of the Region and of its callers; those of the clock       *)
(* constraint layer: the constraint built last (or the exception raised),   *)
(* the call that built it, the latest evaluation of delays.                 *)
rvars == <<clocks, is_int, value_vector, fractional_ord, num_frac, pc, pcf, last>>
cvars == <<cc, made, dl>>

(* The variables of the drivers: the PTA constructed last, the current      *)
(* location of its RegionMDP (whose Region is the Region above), the        *)
(* latest call on the PTA or a driver with its result and the state before  *)
(* it, and the state of the MDP of src/pta/mdp/mdp.py.                      *)
mvars == <<pta, mloc, mcall, mdp>>

(* ---- bounds of the model ---- *)
MaxSteps == 4
MaxVal == 4
MaxFrac == 4
MaxTime == 2
MaxRhs == 1
MaxHalf == 3

(* The clock sets a Region is constructed over. *)
ClockSets == {{"x"}, {"x", "y"}, {"x", "y", "z"}}

(* pc value once the calls made are no longer a prefix of the test. *)
Off == -1

(* int(b) of Python *)
int(b) == IF b THEN 1 ELSE 0

(* The Region object held in the variables, as a record. *)
region ==
  [is_int |-> is_int, value_vector |-> value_vector,
   fractional_ord |-> fractional_ord, num_frac |-> num_frac]

(* Region.__attrs_post_init__ *)
post_init(cs) ==
  [is_int |-> TRUE,
   value_vector |-> [c \in cs |-> 0],
   fractional_ord |-> [c \in cs |-> 0],
   num_frac |-> 1]

(* Region.value, mutated: the half step is added when is_int is false. *)
value_open(r) ==
  [c \in DOMAIN r.value_vector |->
     << r.value_vector[c] * (2 * r.num_frac)
          + (2 * r.fractional_ord[c] + int(~r.is_int)),
        2 * r.num_frac >>]

(* Region.value: clock -> I + (2 F + int(is_int)) / (2 m), as <<num, den>> *)
value(r) ==
  [c \in DOMAIN r.value_vector |->
     << r.value_vector[c] * (2 * r.num_frac)
          + (2 * r.fractional_ord[c] + int(r.is_int)),
        2 * r.num_frac >>]

(* Equality of two fractions; a fraction that is a whole number. *)
RatEq(a, b) == a[1] * b[2] = b[1] * a[2]
IsWhole(a) == a[1] % a[2] = 0

(* Region.delay, mutated: the closed form's carry into _value_vector reads  *)
(* _value_vector where the code reads _fractional_ord.                      *)
delay_wrongvec(r, steps) ==
  IF steps = 1
  THEN IF ~r.is_int
       THEN LET f == [c \in DOMAIN r.fractional_ord |->
                        (r.fractional_ord[c] + 1) % r.num_frac]
            IN [r EXCEPT !.fractional_ord = f,
                         !.value_vector =
                           [c \in DOMAIN r.value_vector |->
                              r.value_vector[c] + int(f[c] = 0)],
                         !.is_int = TRUE]
       ELSE [r EXCEPT !.is_int = FALSE]
  ELSE [r EXCEPT
         !.value_vector =
           [c \in DOMAIN r.value_vector |->
              r.value_vector[c]
                + ((2 * r.value_vector[c] + int(r.is_int) + steps)
                     \div (2 * r.num_frac))],
         !.fractional_ord =
           [c \in DOMAIN r.fractional_ord |->
              (r.fractional_ord[c] + ((steps + int(r.is_int)) \div 2))
                 % r.num_frac],
         !.is_int = IF steps % 2 = 1 THEN ~r.is_int ELSE r.is_int]

(* Region.delay, mutated: the parity test before the flip of _is_int is lost. *)
delay_flip(r, steps) ==
  IF steps = 1
  THEN IF ~r.is_int
       THEN LET f == [c \in DOMAIN r.fractional_ord |->
                        (r.fractional_ord[c] + 1) % r.num_frac]
            IN [r EXCEPT !.fractional_ord = f,
                         !.value_vector =
                           [c \in DOMAIN r.value_vector |->
                              r.value_vector[c] + int(f[c] = 0)],
                         !.is_int = TRUE]
       ELSE [r EXCEPT !.is_int = FALSE]
  ELSE [r EXCEPT
         !.value_vector =
           [c \in DOMAIN r.value_vector |->
              r.value_vector[c]
                + ((2 * r.fractional_ord[c] + int(r.is_int) + steps)
                     \div (2 * r.num_frac))],
         !.fractional_ord =
           [c \in DOMAIN r.fractional_ord |->
              (r.fractional_ord[c] + ((steps + int(r.is_int)) \div 2))
                 % r.num_frac],
         !.is_int = ~r.is_int]

(* Region.delay(steps), steps >= 1 *)
delay(r, steps) ==
  IF steps = 1
  THEN IF ~r.is_int
       THEN LET f == [c \in DOMAIN r.fractional_ord |->
                        (r.fractional_ord[c] + 1) % r.num_frac]
            IN [r EXCEPT !.fractional_ord = f,
                         !.value_vector =
                           [c \in DOMAIN r.value_vector |->
                              r.value_vector[c] + int(f[c] = 0)],
                         !.is_int = TRUE]
       ELSE [r EXCEPT !.is_int = FALSE]
  ELSE [r EXCEPT
         !.value_vector =
           [c \in DOMAIN r.value_vector |->
              r.value_vector[c]
                + ((2 * r.fractional_ord[c] + int(r.is_int) + steps)
                     \div (2 * r.num_frac))],
         !.fractional_ord =
           [c \in DOMAIN r.fractional_ord |->
              (r.fractional_ord[c] + ((steps + int(r.is_int)) \div 2))
                 % r.num_frac],
         !.is_int = IF steps % 2 = 1 THEN ~r.is_int ELSE r.is_int]

(* Region.reset, mutated: the final `_is_int = True` is lost. *)
reset_noint(r, reset_clock) ==
  IF r.is_int /\ r.fractional_ord[reset_clock] = 0
  THEN [r EXCEPT !.value_vector[reset_clock] = 0]
  ELSE LET same == \E c \in DOMAIN r.fractional_ord :
                      /\ c # reset_clock
                      /\ r.fractional_ord[c] = r.fractional_ord[reset_clock]
           m == r.num_frac + int(~same) - int(r.is_int)
           f1(c) == IF ~same /\ r.fractional_ord[c] > r.fractional_ord[reset_clock]
                    THEN (r.fractional_ord[c] - 1) % m
                    ELSE r.fractional_ord[c]
           f2(c) == IF ~r.is_int THEN (f1(c) + 1) % m ELSE f1(c)
       IN [is_int |-> r.is_int,
           num_frac |-> m,
           fractional_ord |->
             [c \in DOMAIN r.fractional_ord |->
                IF c = reset_clock THEN 0 ELSE f2(c)],
           value_vector |-> [r.value_vector EXCEPT ![reset_clock] = 0]]

(* Region.reset(reset_clock).  The loop over the other clocks writes only  *)
(* the clock it visits and reads the reset clock's rank, which is written  *)
(* after the loop, so the loop is one simultaneous update.                 *)
reset(r, reset_clock) ==
  IF r.is_int /\ r.fractional_ord[reset_clock] = 0
  THEN [r EXCEPT !.value_vector[reset_clock] = 0]
  ELSE LET same == \E c \in DOMAIN r.fractional_ord :
                      /\ c # reset_clock
                      /\ r.fractional_ord[c] = r.fractional_ord[reset_clock]
           m == r.num_frac + int(~same) - int(r.is_int)
           f1(c) == IF ~same /\ r.fractional_ord[c] > r.fractional_ord[reset_clock]
                    THEN (r.fractional_ord[c] - 1) % m
                    ELSE r.fractional_ord[c]
           f2(c) == IF ~r.is_int THEN (f1(c) + 1) % m ELSE f1(c)
       IN [is_int |-> TRUE,
           num_frac |-> m,
           fractional_ord |->
             [c \in DOMAIN r.fractional_ord |->
                IF c = reset_clock THEN 0 ELSE f2(c)],
           value_vector |-> [r.value_vector EXCEPT ![reset_clock] = 0]]

(* Fractions <<num, den>> with den > 0: sum, whole part, fractional part    *)
(* (as a numerator over the same den), order of two fractional parts.       *)
RatAdd(a, b) == <<a[1] * b[2] + b[1] * a[2], a[2] * b[2]>>
Floor(a) == a[1] \div a[2]
FracNum(a) == a[1] % a[2]
FracLe(a, b) == FracNum(a) * b[2] <= FracNum(b) * a[2]

(* Two valuations lie in the same region: equal whole parts, the same       *)
(* clocks on an integer, the same order of the fractional parts.            *)
SameRegion(u, v) ==
  /\ DOMAIN u = DOMAIN v
  /\ \A c \in DOMAIN u :
       /\ Floor(u[c]) = Floor(v[c])
       /\ (FracNum(u[c]) = 0) <=> (FracNum(v[c]) = 0)
  /\ \A c, d \in DOMAIN u : FracLe(u[c], u[d]) <=> FracLe(v[c], v[d])

(* The valuation val + t on every clock. *)
Elapse(u, t) == [c \in DOMAIN u |-> RatAdd(u[c], t)]

(* The step counts k for which delay(k) arrives at the Region containing    *)
(* value() + t.                                                             *)
StepsFor(r, t) ==
  {k \in 1..(2 * MaxFrac * MaxTime) :
     SameRegion(value(delay(r, k)), Elapse(value(r), t))}

(* Region.delay_float(t): delay by the step count that corresponds to the   *)
(* real time t; the Region stays as it is when no step count does.          *)
delay_float(r, t) ==
  IF StepsFor(r, t) = {}
  THEN r
  ELSE delay(r, CHOOSE k \in StepsFor(r, t) : \A j \in StepsFor(r, t) : k <= j)

(* The real delays a caller passes to delay_float. *)
Times == {<<1, 6>>, <<1, 4>>, <<1, 2>>, <<1, 1>>}

(* The calls of test_region_value after the construction, in order. *)
TestOps ==
  << [op |-> "delay", steps |-> 1, clock |-> "-"],
     [op |-> "reset", steps |-> 0, clock |-> "x"],
     [op |-> "delay", steps |-> 1, clock |-> "-"],
     [op |-> "delay", steps |-> 4, clock |-> "-"],
     [op |-> "reset", steps |-> 0, clock |-> "y"],
     [op |-> "delay", steps |-> 1, clock |-> "-"],
     [op |-> "delay", steps |-> 1, clock |-> "-"],
     [op |-> "reset", steps |-> 0, clock |-> "z"] >>

(* The valuations test_region_value asserts after each of those calls. *)
TestValues ==
  << [x |-> <<1, 2>>, y |-> <<1, 2>>,  z |-> <<1, 2>>],
     [x |-> <<0, 1>>, y |-> <<1, 2>>,  z |-> <<1, 2>>],
     [x |-> <<1, 4>>, y |-> <<3, 4>>,  z |-> <<3, 4>>],
     [x |-> <<5, 4>>, y |-> <<7, 4>>,  z |-> <<7, 4>>],
     [x |-> <<4, 3>>, y |-> <<0, 1>>,  z |-> <<5, 3>>],
     [x |-> <<3, 2>>, y |-> <<1, 6>>,  z |-> <<11, 6>>],
     [x |-> <<5, 3>>, y |-> <<1, 3>>,  z |-> <<2, 1>>],
     [x |-> <<5, 3>>, y |-> <<1, 3>>,  z |-> <<0, 1>>] >>

(* Position in test_region_value after one more call. *)
NextPc(call) ==
  IF /\ pc >= 0
     /\ pc < Len(TestOps)
     /\ clocks = {"x", "y", "z"}
     /\ TestOps[pc + 1] = call
  THEN pc + 1
  ELSE Off

(* The calls test_delay_float makes on its second Region, in order. *)
FloatOps ==
  << [op |-> "delay_float", steps |-> 0, clock |-> "-", time |-> <<1, 2>>],
     [op |-> "reset", steps |-> 0, clock |-> "x", time |-> <<0, 1>>],
     [op |-> "delay_float", steps |-> 0, clock |-> "-", time |-> <<1, 4>>],
     [op |-> "delay_float", steps |-> 0, clock |-> "-", time |-> <<1, 1>>],
     [op |-> "reset", steps |-> 0, clock |-> "y", time |-> <<0, 1>>],
     [op |-> "delay_float", steps |-> 0, clock |-> "-", time |-> <<1, 6>>],
     [op |-> "delay_float", steps |-> 0, clock |-> "-", time |-> <<1, 6>>] >>

(* Position in test_delay_float after one more call. *)
NextPcf(call) ==
  IF /\ pcf >= 0
     /\ pcf < Len(FloatOps)
     /\ clocks = {"x", "y", "z"}
     /\ FloatOps[pcf + 1] = call
  THEN pcf + 1
  ELSE Off

(* The first Region of test_delay_float after its first i calls. *)
RECURSIVE RunOps(_)
RunOps(i) ==
  IF i = 0
  THEN post_init({"x", "y", "z"})
  ELSE IF TestOps[i].op = "delay"
       THEN delay(RunOps(i - 1), TestOps[i].steps)
       ELSE reset(RunOps(i - 1), TestOps[i].clock)

(* ---------------------------------------------------------------------- *)
(* Clock constraints (src/pta/clocks.py)                                    *)
(* ---------------------------------------------------------------------- *)

(* Objects are records tagged by their class in the field kind; a raised    *)
(* exception is the record Error(exc).  The right operand of a comparison   *)
(* is an int, IntArg(n), or a Clock, ClockArg(name).                        *)
Boolean(v) == [kind |-> "Boolean", value |-> v]
Error(exc) == [kind |-> "Error", exc |-> exc]
IntArg(n) == [kind |-> "int", n |-> n]
ClockArg(name) == [kind |-> "Clock", name |-> name]

(* SingletonConstraint._rhs_validator *)
Singleton_rhs_validator(v) == v < 0

(* SingletonConstraint(clock, rhs, op) *)
SingletonConstraint(clock, rhs, op) ==
  IF Singleton_rhs_validator(rhs)
  THEN Error("ValueError")
  ELSE [kind |-> "Singleton", clock |-> clock, rhs |-> rhs, op |-> op]

(* DiagonalLHS(clock1, clock2), the value of clock1 - clock2 *)
DiagonalLHS(clock1, clock2) ==
  [kind |-> "DiagonalLHS", clock1 |-> clock1, clock2 |-> clock2]

(* DiagonalConstraint._rhs_validator *)
Diagonal_rhs_validator(v) == v < 0

(* DiagonalConstraint, mutated: the validator of rhs is lost. *)
DiagonalConstraint_unchecked(lhs, rhs, op) ==
  [kind |-> "Diagonal", lhs |-> lhs, rhs |-> rhs, op |-> op]

(* DiagonalConstraint(lhs, rhs, op); DiagonalLHS.__lt__/__le__/__gt__/__ge__ *)
(* pass their operand straight to it.                                       *)
DiagonalConstraint(lhs, rhs, op) ==
  IF Diagonal_rhs_validator(rhs)
  THEN Error("ValueError")
  ELSE [kind |-> "Diagonal", lhs |-> lhs, rhs |-> rhs, op |-> op]

(* Truth value of an object in an `if`: the attrs classes define neither    *)
(* __bool__ nor __len__, so every constraint object is true.                *)
Truthy(obj) == obj.kind \in {"Boolean", "Singleton", "Diagonal", "And"}

(* Clock.__lt__ on an int, mutated: the test is `other < 0`. *)
Clock_lt_int_strict(self, n) ==
  IF n < 0 THEN Boolean(FALSE) ELSE SingletonConstraint(self, n, "LT")

(* Clock.__lt__, __le__, __gt__, __ge__ on an int operand *)
Clock_lt_int(self, n) ==
  IF n <= 0 THEN Boolean(FALSE) ELSE SingletonConstraint(self, n, "LT")
Clock_le_int(self, n) ==
  IF n < 0 THEN Boolean(FALSE) ELSE SingletonConstraint(self, n, "LE")
Clock_gt_int(self, n) ==
  IF n < 0 THEN Boolean(TRUE) ELSE SingletonConstraint(self, n, "GT")
Clock_ge_int(self, n) ==
  IF n <= 0 THEN Boolean(TRUE) ELSE SingletonConstraint(self, n, "GE")

(* The tests `other <= 0` and `other < 0` of the comparison methods: on an  *)
(* int the comparison of numbers; on a Clock the truth value of the object  *)
(* that the operand's own __le__(0) or __lt__(0) returns.                   *)
LeZero(other) ==
  IF other.kind = "int" THEN other.n <= 0 ELSE Truthy(Clock_le_int(other.name, 0))
LtZero(other) ==
  IF other.kind = "int" THEN other.n < 0 ELSE Truthy(Clock_lt_int(other.name, 0))

(* SingletonConstraint(self, other, op) with a Clock as rhs: the validator's *)
(* test `value < 0` is the truth value of the object other.__lt__(0).       *)
SingletonOnClock(self, other, op) ==
  IF LtZero(other)
  THEN Error("ValueError")
  ELSE [kind |-> "Singleton", clock |-> self, rhs |-> other, op |-> op]

(* Clock.__lt__, __le__, __gt__, __ge__ (self op other) *)
Clock_compare(self, op, other) ==
  IF other.kind = "int"
  THEN CASE op = "LT" -> Clock_lt_int(self, other.n)
         [] op = "LE" -> Clock_le_int(self, other.n)
         [] op = "GT" -> Clock_gt_int(self, other.n)
         [] op = "GE" -> Clock_ge_int(self, other.n)
  ELSE CASE op = "LT" -> IF LeZero(other) THEN Boolean(FALSE) ELSE SingletonOnClock(self, other, op)
         [] op = "LE" -> IF LtZero(other) THEN Boolean(FALSE) ELSE SingletonOnClock(self, other, op)
         [] op = "GT" -> IF LtZero(other) THEN Boolean(TRUE) ELSE SingletonOnClock(self, other, op)
         [] op = "GE" -> IF LeZero(other) THEN Boolean(TRUE) ELSE SingletonOnClock(self, other, op)

(* `&`, mutated: a Boolean right operand always returns the left one. *)
and_keep(self, other) ==
  IF self.kind = "Boolean"
  THEN IF self.value THEN other ELSE Boolean(FALSE)
  ELSE IF other.kind = "Boolean"
       THEN self
       ELSE [kind |-> "And", args |-> <<self, other>>]

(* self & other: Boolean.__and__ when self is a Boolean, otherwise          *)
(* ClockConstraint.__and__.                                                 *)
and(self, other) ==
  IF self.kind = "Boolean"
  THEN IF self.value THEN other ELSE Boolean(FALSE)
  ELSE IF other.kind = "Boolean"
       THEN IF other.value THEN self ELSE other
       ELSE [kind |-> "And", args |-> <<self, other>>]

(* ---------------------------------------------------------------------- *)
(* Intervals of the portion library, as src/pta/clocks.py uses them         *)
(* ---------------------------------------------------------------------- *)

(* Numbers are fractions <<num, den>> in lowest terms, den > 0; P.inf and   *)
(* -P.inf are <<1, 0>> and <<-1, 0>>.                                       *)
RECURSIVE GCD(_, _)
GCD(a, b) == IF b = 0 THEN a ELSE GCD(b, a % b)
Abs(n) == IF n < 0 THEN -n ELSE n
Rat(n, d) == LET g == GCD(Abs(n), d) IN <<n \div g, d \div g>>
Inf == <<1, 0>>
NegInf == <<-1, 0>>
RatSub(a, b) == Rat(a[1] * b[2] - b[1] * a[2], a[2] * b[2])
RatLt(a, b) ==
  IF a[2] = 0 /\ b[2] = 0 THEN a[1] < b[1] ELSE a[1] * b[2] < b[1] * a[2]
RatLe(a, b) == a = b \/ RatLt(a, b)
RatMax(a, b) == IF RatLt(a, b) THEN b ELSE a
RatMin(a, b) == IF RatLt(a, b) THEN a ELSE b

(* P.empty(): the interval without atomic part; its bounds read as          *)
(* (+inf, -inf), both open.                                                 *)
P_empty ==
  [kind |-> "Interval", left |-> "OPEN", lower |-> Inf, upper |-> NegInf,
   right |-> "OPEN"]

(* Interval.from_atomic: an infinite bound is open; a crossed or            *)
(* degenerate open interval is empty.                                       *)
from_atomic(left, lower, upper, right) ==
  LET l == IF lower[2] = 0 THEN "OPEN" ELSE left
      r == IF upper[2] = 0 THEN "OPEN" ELSE right
  IN IF RatLt(upper, lower) \/ (lower = upper /\ (l = "OPEN" \/ r = "OPEN"))
     THEN P_empty
     ELSE [kind |-> "Interval", left |-> l, lower |-> lower, upper |-> upper,
           right |-> r]

P_closed(lower, upper) == from_atomic("CLOSED", lower, upper, "CLOSED")
P_open(lower, upper) == from_atomic("OPEN", lower, upper, "OPEN")
P_closedopen(lower, upper) == from_atomic("CLOSED", lower, upper, "OPEN")

(* Interval.__and__ of two atomic intervals *)
intersect(a, b) ==
  IF a = P_empty \/ b = P_empty
  THEN P_empty
  ELSE LET lower == RatMax(a.lower, b.lower)
           left == IF a.lower = b.lower
                   THEN (IF a.left = "OPEN" THEN a.left ELSE b.left)
                   ELSE (IF lower = a.lower THEN a.left ELSE b.left)
           upper == RatMin(a.upper, b.upper)
           right == IF a.upper = b.upper
                    THEN (IF a.right = "OPEN" THEN a.right ELSE b.right)
                    ELSE (IF upper = a.upper THEN a.right ELSE b.right)
       IN from_atomic(left, lower, upper, right)

(* ComparisonOp.to_op applied to two numbers *)
to_op(op, a, b) ==
  CASE op = "GE" -> RatLe(b, a)
    [] op = "GT" -> RatLt(b, a)
    [] op = "LE" -> RatLe(a, b)
    [] op = "LT" -> RatLt(a, b)

(* delays, mutated: the branch of LT returns the closed interval. *)
RECURSIVE delays_ltclosed(_, _)
delays_ltclosed(values, constraint) ==
  CASE constraint.kind = "Boolean" ->
         IF constraint.value THEN P_closed(Rat(0, 1), Inf) ELSE P_empty
    [] constraint.kind = "Singleton" ->
         LET v_c == values[constraint.clock]
             n == Rat(constraint.rhs, 1)
         IN IF constraint.clock \notin DOMAIN values
            THEN Error("KeyError")
            ELSE (CASE constraint.op = "GE" -> P_closed(RatSub(n, v_c), Inf)
                    [] constraint.op = "GT" -> P_open(RatSub(n, v_c), Inf)
                    [] constraint.op = "LE" -> P_closed(Rat(0, 1), RatSub(n, v_c))
                    [] constraint.op = "LT" -> P_closed(Rat(0, 1), RatSub(n, v_c)))
    [] constraint.kind = "And" ->
         LET a == delays_ltclosed(values, constraint.args[1])
             b == delays_ltclosed(values, constraint.args[2])
         IN IF a.kind = "Error" THEN a
            ELSE IF b.kind = "Error" THEN b
            ELSE intersect(a, b)
    [] constraint.kind = "Diagonal" ->
         IF {constraint.lhs.clock1, constraint.lhs.clock2} \subseteq DOMAIN values
         THEN Error("UnboundLocalError")
         ELSE Error("KeyError")
    [] OTHER -> Error("TypeError")

(* delays(values, constraint).  In the branch of DiagonalConstraint the     *)
(* name n is a local variable that only the branch of SingletonConstraint   *)
(* assigns, so the call op_fn(v_c1 - v_c2, n) raises UnboundLocalError      *)
(* after the two lookups in values.  An exception in an operand of `&`      *)
(* leaves the call.                                                         *)
RECURSIVE delays(_, _)
delays(values, constraint) ==
  CASE constraint.kind = "Boolean" ->
         IF constraint.value THEN P_closed(Rat(0, 1), Inf) ELSE P_empty
    [] constraint.kind = "Singleton" ->
         LET v_c == values[constraint.clock]
             n == Rat(constraint.rhs, 1)
         IN IF constraint.clock \notin DOMAIN values
            THEN Error("KeyError")
            ELSE (CASE constraint.op = "GE" -> P_closed(RatSub(n, v_c), Inf)
                    [] constraint.op = "GT" -> P_open(RatSub(n, v_c), Inf)
                    [] constraint.op = "LE" -> P_closed(Rat(0, 1), RatSub(n, v_c))
                    [] constraint.op = "LT" -> P_closedopen(Rat(0, 1), RatSub(n, v_c)))
    [] constraint.kind = "And" ->
         LET a == delays(values, constraint.args[1])
             b == delays(values, constraint.args[2])
         IN IF a.kind = "Error" THEN a
            ELSE IF b.kind = "Error" THEN b
            ELSE intersect(a, b)
    [] constraint.kind = "Diagonal" ->
         IF {constraint.lhs.clock1, constraint.lhs.clock2} \subseteq DOMAIN values
         THEN Error("UnboundLocalError")
         ELSE Error("KeyError")
    [] OTHER -> Error("TypeError")

(* Interval.contains(t) of portion, for a number t *)
interval_contains(iv, t) ==
  /\ iv # P_empty
  /\ RatLt(iv.lower, t) \/ (iv.lower = t /\ iv.left = "CLOSED")
  /\ RatLt(t, iv.upper) \/ (iv.upper = t /\ iv.right = "CLOSED")

(* random.uniform(a, b) = a + (b - a) * random(), u the value of random() *)
RatPlus(a, b) == Rat(a[1] * b[2] + b[1] * a[2], a[2] * b[2])
RatMul(a, b) == Rat(a[1] * b[1], a[2] * b[2])
uniform(a, b, u) == RatPlus(a, RatMul(RatSub(b, a), u))

(* MDP._default_delay_stochasticity(val, cc), u the value random() draws:   *)
(* an open end is moved inwards by 0.1; an unbounded interval gives its     *)
(* (moved) lower end.  The empty interval reads (+inf, -inf) and gives nan. *)
default_delay_stochasticity(val, constraint, u) ==
  LET interval == delays(val, constraint)
  IN IF interval.kind = "Error" THEN interval
     ELSE IF interval.lower = NegInf THEN Error("AssertionError")
     ELSE IF interval = P_empty THEN [kind |-> "nan"]
     ELSE LET left_offset == IF interval.left = "OPEN" THEN Rat(1, 10) ELSE Rat(0, 1)
              right_offset == IF interval.right = "OPEN" THEN Rat(1, 10) ELSE Rat(0, 1)
          IN IF interval.upper = Inf
             THEN [kind |-> "Float", value |-> RatPlus(interval.lower, left_offset)]
             ELSE [kind |-> "Float",
                   value |-> uniform(RatPlus(interval.lower, left_offset),
                                     RatSub(interval.upper, right_offset), u)]

(* ---------------------------------------------------------------------- *)
(* The PTA (src/pta/pta.py)                                                 *)
(* ---------------------------------------------------------------------- *)

(* PTA(...), mutated: the validator of invariants is lost. *)
PTA_noinvariants(a) ==
  IF a.init_location \notin a.locations
  THEN Error("ValueError")
  ELSE IF ~(a.locations \subseteq DOMAIN a.transitions)
  THEN Error("ValueError")
  ELSE [kind |-> "PTA", locations |-> a.locations, clocks |-> a.clocks,
        init_location |-> a.init_location, transitions |-> a.transitions,
        invariants |-> a.invariants, labels |-> a.labels]

(* PTA(locations, clocks, init_location, transitions, invariants, labels):  *)
(* the attributes are assigned, then the validators run in the order of    *)
(* the attributes.  The two TODOs of the validators check nothing.          *)
PTA(a) ==
  IF a.init_location \notin a.locations
  THEN Error("ValueError")
  ELSE IF ~(a.locations \subseteq DOMAIN a.transitions)
  THEN Error("ValueError")
  ELSE IF ~(a.locations \subseteq DOMAIN a.invariants)
  THEN Error("ValueError")
  ELSE [kind |-> "PTA", locations |-> a.locations, clocks |-> a.clocks,
        init_location |-> a.init_location, transitions |-> a.transitions,
        invariants |-> a.invariants, labels |-> a.labels]

(* guard.contains(values) / values in guard: the valuation satisfies the    *)
(* guard iff the delay 0 is in delays(values, guard).                       *)
contains(guard, values) ==
  LET d == delays(values, guard)
  IN IF d.kind = "Error" THEN d ELSE Boolean(interval_contains(d, Rat(0, 1)))

(* PTA.enabled_actions, mutated: the guards are not looked at. *)
PTA_enabled_actions_all(p, loc, values) ==
  IF loc \notin p.locations \/ ~(p.clocks \subseteq DOMAIN values)
  THEN Error("AssertionError")
  ELSE [kind |-> "Mapping",
        map |-> [label \in DOMAIN p.transitions[loc] |-> p.transitions[loc][label].dist]]

(* PTA.enabled_actions(loc, values): the two assertions, then the mapping   *)
(* label -> dist of the transitions of loc whose guard contains values; an  *)
(* exception in a guard's test leaves the call.                             *)
PTA_enabled_actions(p, loc, values) ==
  IF loc \notin p.locations \/ ~(p.clocks \subseteq DOMAIN values)
  THEN Error("AssertionError")
  ELSE LET T == p.transitions[loc]
           raised == {contains(T[label].guard, values) : label \in DOMAIN T}
                       \cap {Error("UnboundLocalError"), Error("KeyError"),
                             Error("TypeError")}
           enabled == {label \in DOMAIN T :
                         contains(T[label].guard, values) = Boolean(TRUE)}
       IN IF raised # {}
          THEN CHOOSE e \in raised : TRUE
          ELSE [kind |-> "Mapping", map |-> [label \in enabled |-> T[label].dist]]

(* PTA.allowed_delays(loc, values) *)
PTA_allowed_delays(p, loc, values) == delays(values, p.invariants[loc])

(* Store a Region record into the variables. *)
Store(r) ==
  /\ is_int' = r.is_int
  /\ value_vector' = r.value_vector
  /\ fractional_ord' = r.fractional_ord
  /\ num_frac' = r.num_frac

Init ==
  /\ clocks \in ClockSets
  /\ is_int = post_init(clocks).is_int
  /\ value_vector = post_init(clocks).value_vector
  /\ fractional_ord = post_init(clocks).fractional_ord
  /\ num_frac = post_init(clocks).num_frac
  /\ pc = 0
  /\ pcf = 0
  /\ last = [op |-> "init", steps |-> 0, clock |-> "-", time |-> <<0, 1>>,
             pre |-> post_init(clocks)]
  /\ cc = Boolean(TRUE)
  /\ made = [fn |-> "none"]
  /\ dl = [kind |-> "none"]
  /\ pta = [kind |-> "none"]
  /\ mloc = "-"
  /\ mcall = [op |-> "none"]
  /\ mdp = [kind |-> "none"]

(* A call reg.delay(steps) *)
Delay(steps) ==
  LET r == delay(region, steps)
  IN /\ steps >= 1
     /\ \A c \in clocks : r.value_vector[c] <= MaxVal
     /\ Store(r)
     /\ pc' = NextPc([op |-> "delay", steps |-> steps, clock |-> "-"])
     /\ pcf' = NextPcf([op |-> "delay", steps |-> steps, clock |-> "-", time |-> <<0, 1>>])
     /\ last' = [op |-> "delay", steps |-> steps, clock |-> "-", time |-> <<0, 1>>,
                 pre |-> region]
     /\ UNCHANGED clocks
     /\ UNCHANGED cvars
     /\ UNCHANGED mvars

(* A call reg.reset(reset_clock) *)
Reset(reset_clock) ==
  LET r == reset(region, reset_clock)
  IN /\ reset_clock \in clocks
     /\ r.num_frac <= MaxFrac
     /\ Store(r)
     /\ pc' = NextPc([op |-> "reset", steps |-> 0, clock |-> reset_clock])
     /\ pcf' = NextPcf([op |-> "reset", steps |-> 0, clock |-> reset_clock, time |-> <<0, 1>>])
     /\ last' = [op |-> "reset", steps |-> 0, clock |-> reset_clock, time |-> <<0, 1>>,
                 pre |-> region]
     /\ UNCHANGED clocks
     /\ UNCHANGED cvars
     /\ UNCHANGED mvars

(* A call reg.delay_float(time) *)
DelayFloat(time) ==
  LET r == delay_float(region, time)
  IN /\ \A c \in clocks : r.value_vector[c] <= MaxVal
     /\ Store(r)
     /\ pc' = Off
     /\ pcf' = NextPcf([op |-> "delay_float", steps |-> 0, clock |-> "-", time |-> time])
     /\ last' = [op |-> "delay_float", steps |-> 0, clock |-> "-", time |-> time,
                 pre |-> region]
     /\ UNCHANGED clocks
     /\ UNCHANGED cvars
     /\ UNCHANGED mvars

Next ==
  \/ \E steps \in 1..MaxSteps : Delay(steps)
  \/ \E time \in Times : DelayFloat(time)
  \/ \E reset_clock \in {"x", "y", "z"} : Reset(reset_clock)

Spec == Init /\ [][Next]_vars

(* ---- the clock constraint layer ---- *)

(* The clocks, operators, right-hand sides and valuations of the calls. *)
CClocks == {"x", "y"}
Ops == {"LT", "LE", "GT", "GE"}
RhsArgs == (0 - 1)..MaxRhs
Valuations == [CClocks -> {Rat(h, 2) : h \in 0..MaxHalf}]

(* The constraints that are the second operand of `&`. *)
Operands ==
  {Clock_compare(c, op, IntArg(n)) : c \in CClocks, op \in Ops, n \in RhsArgs}
    \cup {DiagonalConstraint(DiagonalLHS("x", "y"), n, "LE") : n \in 0..MaxRhs}

(* c op other, other an int or a Clock *)
Compare(c, op, other) ==
  /\ cc' = Clock_compare(c, op, other)
  /\ made' = [fn |-> "compare", clock |-> c, op |-> op, other |-> other]
  /\ dl' = [kind |-> "none"]
  /\ UNCHANGED rvars
  /\ UNCHANGED mvars

(* SingletonConstraint(c, n, op) *)
NewSingleton(c, n, op) ==
  /\ cc' = SingletonConstraint(c, n, op)
  /\ made' = [fn |-> "SingletonConstraint", clock |-> c, rhs |-> n, op |-> op]
  /\ dl' = [kind |-> "none"]
  /\ UNCHANGED rvars
  /\ UNCHANGED mvars

(* (c1 - c2) op n *)
NewDiagonal(c1, c2, n, op) ==
  /\ cc' = DiagonalConstraint(DiagonalLHS(c1, c2), n, op)
  /\ made' = [fn |-> "DiagonalConstraint", clock1 |-> c1, clock2 |-> c2,
              rhs |-> n, op |-> op]
  /\ dl' = [kind |-> "none"]
  /\ UNCHANGED rvars
  /\ UNCHANGED mvars

(* cc & q or q & cc.  A conjunction is extended by Booleans only, which     *)
(* keeps the constraints of the model at one level of And.                  *)
AndWith(q, left) ==
  /\ cc.kind # "Error"
  /\ cc.kind = "And" => q.kind = "Boolean"
  /\ cc' = IF left THEN and(cc, q) ELSE and(q, cc)
  /\ made' = [fn |-> "and", left |-> IF left THEN cc ELSE q,
              right |-> IF left THEN q ELSE cc]
  /\ dl' = [kind |-> "none"]
  /\ UNCHANGED rvars
  /\ UNCHANGED mvars

(* delays(values, cc) *)
Delays(values) ==
  /\ cc.kind # "Error"
  /\ dl' = [kind |-> "delays", values |-> values, constraint |-> cc,
            result |-> delays(values, cc)]
  /\ made' = [fn |-> "delays"]
  /\ UNCHANGED cc
  /\ UNCHANGED rvars
  /\ UNCHANGED mvars

(* The valuations and the draws of random() of the calls of the delay       *)
(* picker.                                                                  *)
PickValuations ==
  {[x |-> Rat(0, 1), y |-> Rat(0, 1)], [x |-> Rat(1, 2), y |-> Rat(3, 2)],
   [x |-> Rat(19, 20), y |-> Rat(1, 2)]}
Draws == {Rat(0, 1), Rat(1, 2)}

(* MDP._default_delay_stochasticity(values, cc) *)
PickDelay(values, u) ==
  /\ cc.kind # "Error"
  /\ dl' = [kind |-> "pick", values |-> values, constraint |-> cc,
            interval |-> delays(values, cc),
            result |-> default_delay_stochasticity(values, cc, u)]
  /\ made' = [fn |-> "pick"]
  /\ UNCHANGED cc
  /\ UNCHANGED rvars
  /\ UNCHANGED mvars

InitClocks == Init /\ clocks = CClocks

NextClocks ==
  \/ \E c \in CClocks, op \in Ops, n \in RhsArgs : Compare(c, op, IntArg(n))
  \/ \E c \in CClocks, op \in Ops, d \in CClocks : Compare(c, op, ClockArg(d))
  \/ \E c \in CClocks, op \in Ops, n \in RhsArgs : NewSingleton(c, n, op)
  \/ \E c1 \in CClocks : \E c2 \in CClocks \ {c1}, op \in Ops, n \in RhsArgs :
       NewDiagonal(c1, c2, n, op)
  \/ \E q \in Operands, left \in BOOLEAN : AndWith(q, left)
  \/ \E values \in Valuations : Delays(values)
  \/ \E values \in PickValuations, u \in Draws : PickDelay(values, u)

SpecClocks == InitClocks /\ [][NextClocks]_vars

(* ---- the PTA and its drivers ---- *)

(* A target (reset clocks, successor), a transition (guard, distribution);  *)
(* a distribution is its support.                                           *)
Target(resets, loc) == [resets |-> resets, loc |-> loc]
Transition(guard, dist) == [guard |-> guard, dist |-> dist]

(* The restriction of a mapping to the keys in D. *)
Restrict(f, D) == [k \in D |-> f[k]]

(* PTA descriptions over the locations l0 and l1: one with singleton        *)
(* constraints (an edge guarded by x >= 2, the invariant x <= 3), one with  *)
(* diagonal constraints, one whose constraints mention the clock y that     *)
(* its clock set lacks.  In the first, the edge b of l0 is enabled from the *)
(* start and the invariant of l1 bounds y from below.                       *)
Descriptions ==
  << [clocks |-> {"x", "y"},
      transitions |->
        [l0 |-> [a |-> Transition(Clock_compare("x", "GE", IntArg(2)),
                                  {Target({"x"}, "l1"), Target({}, "l0")}),
                 b |-> Transition(Clock_compare("x", "LE", IntArg(3)),
                                  {Target({"y"}, "l1")})],
         l1 |-> [b |-> Transition(Boolean(TRUE), {Target({"y"}, "l0")})]],
      invariants |->
        [l0 |-> Clock_compare("x", "LE", IntArg(3)),
         l1 |-> Clock_compare("y", "GE", IntArg(1))]],
     [clocks |-> {"x", "y"},
      transitions |->
        [l0 |-> [a |-> Transition(DiagonalConstraint(DiagonalLHS("x", "y"), 1, "LE"),
                                  {Target({}, "l1")})],
         l1 |-> [b |-> Transition(Clock_compare("y", "GT", IntArg(0)),
                                  {Target({"y"}, "l0")})]],
      invariants |->
        [l0 |-> Clock_compare("x", "LT", IntArg(2)),
         l1 |-> DiagonalConstraint(DiagonalLHS("x", "y"), 0, "GE")]],
     [clocks |-> {"x"},
      transitions |->
        [l0 |-> [a |-> Transition(Clock_compare("y", "GE", IntArg(1)),
                                  {Target({}, "l1")})],
         l1 |-> [b |-> Transition(Boolean(TRUE), {Target({"x"}, "l0")})]],
      invariants |->
        [l0 |-> Clock_compare("y", "LE", IntArg(1)), l1 |-> Boolean(TRUE)]] >>

(* The arguments of the constructor calls: a description, with the initial  *)
(* location inside or outside the locations and the two maps complete or    *)
(* lacking l1.                                                              *)
PTAArgs ==
  {[locations |-> {"l0", "l1"},
    clocks |-> Descriptions[i].clocks,
    init_location |-> init,
    transitions |-> Restrict(Descriptions[i].transitions, tkeys),
    invariants |-> Restrict(Descriptions[i].invariants, ikeys),
    labels |-> [l \in {"l0", "l1"} |-> {}]] :
     i \in 1..Len(Descriptions), init \in {"l0", "l2"},
     tkeys \in {{"l0"}, {"l0", "l1"}}, ikeys \in {{"l0"}, {"l0", "l1"}}}

(* The delays and edges a scheduler passes. *)
MTimes == {<<-1, 2>>, <<1, 2>>, <<1, 1>>, <<3, 2>>, <<2, 1>>}
Edges == {"a", "b"}

(* The state of the RegionMDP, and the pair its calls return. *)
mstate == [location |-> mloc, region |-> region]
Obs(loc, r) == [kind |-> "State", location |-> loc, valuation |-> value(r)]
None == [kind |-> "None"]

(* ClockValuation.zero_init(clocks) *)
zero_init(cs) == [c \in cs |-> Rat(0, 1)]

(* PTA(...) on the arguments a; a PTA that results gets its drivers,        *)
(* to_region_mdp() and MDP(pta), each set up by its __attrs_post_init__.     *)
Construct(a) ==
  LET p == PTA(a)
  IN /\ mcall' = [op |-> "PTA", arg |-> a, result |-> p, pre |-> mstate]
     /\ IF p.kind = "PTA"
        THEN /\ pta' = p
             /\ clocks' = p.clocks
             /\ Store(post_init(p.clocks))
             /\ mloc' = p.init_location
             /\ mdp' = [kind |-> "MDP", valuation |-> zero_init(p.clocks),
                        location |-> p.init_location]
        ELSE UNCHANGED <<pta, clocks, is_int, value_vector, fractional_ord,
                         num_frac, mloc, mdp>>
     /\ UNCHANGED <<pc, pcf, last>>
     /\ UNCHANGED cvars

(* RegionMDP.reset, mutated: the location stays. *)
RegionMDP_reset_keeploc(p, loc) ==
  [location |-> loc, region |-> post_init(p.clocks)]

(* RegionMDP.reset() of a driver of p at loc: __attrs_post_init__ *)
RegionMDP_reset(p, loc) ==
  [location |-> p.init_location, region |-> post_init(p.clocks)]

(* RegionMDP.reset() *)
MReset ==
  LET n == RegionMDP_reset(pta, mloc)
  IN /\ pta.kind = "PTA"
     /\ Store(n.region)
     /\ mloc' = n.location
     /\ mcall' = [op |-> "reset", arg |-> "-", result |-> Obs(n.location, n.region),
                  pre |-> mstate]
     /\ UNCHANGED <<pta, mdp, clocks, pc, pcf, last>>
     /\ UNCHANGED cvars

(* RegionMDP.enabled_actions() *)
RegionMDP_enabled_actions(p, loc, r) == PTA_enabled_actions(p, loc, value(r))

(* RegionMDP.invariant_interval(), mutated: asks for the initial location. *)
RegionMDP_invariant_interval_init(p, loc, r) ==
  PTA_allowed_delays(p, p.init_location, value(r))

(* RegionMDP.invariant_interval() *)
RegionMDP_invariant_interval(p, loc, r) == PTA_allowed_delays(p, loc, value(r))

(* A query: enabled_actions() or invariant_interval() *)
MQuery(op) ==
  /\ pta.kind = "PTA"
  /\ mcall' = [op |-> op, arg |-> "-",
               result |-> IF op = "enabled_actions"
                          THEN RegionMDP_enabled_actions(pta, mloc, region)
                          ELSE RegionMDP_invariant_interval(pta, mloc, region),
               pre |-> mstate]
  /\ UNCHANGED <<pta, mloc, mdp>>
  /\ UNCHANGED rvars
  /\ UNCHANGED cvars

(* RegionMDP.delay, mutated: the delay is applied before None is returned. *)
RegionMDP_delay_late(p, loc, r, time) ==
  LET iv == RegionMDP_invariant_interval(p, loc, r)
  IN IF iv.kind = "Error"
     THEN [region |-> r, result |-> iv]
     ELSE IF ~interval_contains(iv, time)
     THEN [region |-> delay_float(r, time), result |-> None]
     ELSE [region |-> delay_float(r, time),
           result |-> Obs(loc, delay_float(r, time))]

(* RegionMDP.delay(time): the Region after the call and the value returned  *)
(* (an exception of invariant_interval leaves the call).                    *)
RegionMDP_delay(p, loc, r, time) ==
  LET iv == RegionMDP_invariant_interval(p, loc, r)
  IN IF iv.kind = "Error"
     THEN [region |-> r, result |-> iv]
     ELSE IF ~interval_contains(iv, time)
     THEN [region |-> r, result |-> None]
     ELSE [region |-> delay_float(r, time),
           result |-> Obs(loc, delay_float(r, time))]

(* RegionMDP.delay(time) *)
MDelay(time) ==
  LET n == RegionMDP_delay(pta, mloc, region, time)
  IN /\ pta.kind = "PTA"
     /\ \A c \in clocks : n.region.value_vector[c] <= MaxVal
     /\ Store(n.region)
     /\ mcall' = [op |-> "delay", arg |-> time, result |-> n.result, pre |-> mstate]
     /\ UNCHANGED <<pta, mloc, mdp, clocks, pc, pcf, last>>
     /\ UNCHANGED cvars

(* Region.reset(c) for each c of a reset set *)
RECURSIVE ResetAll(_, _)
ResetAll(r, cs) ==
  IF cs = {}
  THEN r
  ELSE LET c == CHOOSE d \in cs : TRUE
       IN ResetAll(reset(r, c), cs \ {c})

(* step(action) of the Region-MDP, the target drawn being target: an        *)
(* action that is not enabled is an error and nothing changes; otherwise    *)
(* the clocks of the target are reset and its successor is entered.         *)
RegionMDP_step(p, loc, r, action, target) ==
  LET en == RegionMDP_enabled_actions(p, loc, r)
  IN IF en.kind = "Error"
     THEN [location |-> loc, region |-> r, result |-> en]
     ELSE IF action \notin DOMAIN en.map \/ target \notin en.map[action]
     THEN [location |-> loc, region |-> r, result |-> Error("ValueError")]
     ELSE [location |-> target.loc, region |-> ResetAll(r, target.resets),
           result |-> Obs(target.loc, ResetAll(r, target.resets))]

(* step(action), target being the draw from the distribution *)
MStep(action, target) ==
  LET n == RegionMDP_step(pta, mloc, region, action, target)
  IN /\ pta.kind = "PTA"
     /\ n.region.num_frac <= MaxFrac
     /\ Store(n.region)
     /\ mloc' = n.location
     /\ mcall' = [op |-> "step", arg |-> action, result |-> n.result, pre |-> mstate]
     /\ UNCHANGED <<pta, mdp, clocks, pc, pcf, last>>
     /\ UNCHANGED cvars

(* MDP.enabled_actions(): the pair (allowed delays, enabled edges), or the  *)
(* exception raised while computing it.                                     *)
MDP_enabled_actions(p, m) ==
  LET ad == PTA_allowed_delays(p, m.location, m.valuation)
      ae == PTA_enabled_actions(p, m.location, m.valuation)
  IN IF ad.kind = "Error" THEN ad
     ELSE IF ae.kind = "Error" THEN ae
     ELSE [kind |-> "Pair", allowed_delay |-> ad, allowed_edges |-> ae.map]

(* MDP.step((delay, edge), edge_first): the value returned or the exception *)
(* raised.  The body ends after _get_transition, so a call that passes the  *)
(* assertion returns None; no attribute of the MDP is assigned.             *)
MDP_step(p, m, delay_time, edge, edge_first) ==
  LET en == MDP_enabled_actions(p, m)
  IN IF en.kind = "Error" THEN en
     ELSE IF edge_first /\ edge \notin DOMAIN en.allowed_edges
     THEN Error("AssertionError")
     ELSE None

(* MDP.step(action, edge_first=...) *)
MDPStep(delay_time, edge, edge_first) ==
  /\ pta.kind = "PTA"
  /\ mcall' = [op |-> "MDP.step", arg |-> <<delay_time, edge>>,
               edge_first |-> edge_first,
               result |-> MDP_step(pta, mdp, delay_time, edge, edge_first),
               pre |-> mdp]
  /\ mdp' = mdp
  /\ UNCHANGED <<pta, mloc>>
  /\ UNCHANGED rvars
  /\ UNCHANGED cvars

(* MDP.reset() *)
MDPReset ==
  /\ pta.kind = "PTA"
  /\ mdp' = [kind |-> "MDP", valuation |-> zero_init(pta.clocks),
             location |-> pta.init_location]
  /\ mcall' = [op |-> "MDP.reset", arg |-> "-", result |-> mdp', pre |-> mdp]
  /\ UNCHANGED <<pta, mloc>>
  /\ UNCHANGED rvars
  /\ UNCHANGED cvars

(* DiscreteDistribution.validate_support(check_set) *)
validate_support(dist, check_set) == ~(dist \subseteq check_set)

(* The sets a distribution's support is checked against. *)
CheckSets == SUBSET {Target({"x"}, "l1"), Target({}, "l0")}

(* pta.transitions[loc][edge][1].validate_support(check_set) *)
ValidateSupport(edge, check_set) ==
  /\ pta.kind = "PTA"
  /\ edge \in DOMAIN pta.transitions[mloc]
  /\ mcall' = [op |-> "validate_support", arg |-> check_set,
               dist |-> pta.transitions[mloc][edge].dist,
               result |-> validate_support(pta.transitions[mloc][edge].dist,
                                           check_set),
               pre |-> mstate]
  /\ UNCHANGED <<pta, mloc, mdp>>
  /\ UNCHANGED rvars
  /\ UNCHANGED cvars

InitMDP == Init /\ clocks = CClocks

NextMDP ==
  \/ \E a \in PTAArgs : Construct(a)
  \/ MReset
  \/ \E op \in {"enabled_actions", "invariant_interval"} : MQuery(op)
  \/ \E time \in MTimes : MDelay(time)
  \/ \E action \in Edges, resets \in SUBSET CClocks, loc \in {"l0", "l1"} :
       MStep(action, Target(resets, loc))
  \/ \E time \in MTimes, edge \in Edges, edge_first \in BOOLEAN :
       MDPStep(time, edge, edge_first)
  \/ MDPReset
  \/ \E edge \in Edges, check_set \in CheckSets : ValidateSupport(edge, check_set)

SpecMDP == InitMDP /\ [][NextMDP]_vars

TypeOK ==
  /\ clocks \in ClockSets
  /\ is_int \in BOOLEAN
  /\ value_vector \in [clocks -> 0..MaxVal]
  /\ fractional_ord \in [clocks -> 0..MaxFrac]
  /\ num_frac \in 1..MaxFrac
  /\ pc \in {Off} \cup 0..Len(TestOps)
  /\ pcf \in {Off} \cup 0..Len(FloatOps)

(* ---------------------------------------------------------------------- *)
(* Properties                                                               *)
(* ---------------------------------------------------------------------- *)

(* The representative valuation of the current Region. *)
val == value(region)

(* k successive calls delay(1) *)
RECURSIVE delay_times(_, _)
delay_times(r, k) == IF k = 0 THEN r ELSE delay_times(delay(r, 1), k - 1)

(* The closed-form update of the specification, s = 1 if is_int else 0:     *)
(* I' = I + floor((2F + s + k) / 2m), F' = (F + floor((k + s)/2)) mod m,    *)
(* is_int' = is_int XOR (k odd), m unchanged.                               *)
ClosedForm(r, k) ==
  LET s == IF r.is_int THEN 1 ELSE 0
  IN [is_int |-> (r.is_int # (k % 2 = 1)),
      value_vector |->
        [c \in DOMAIN r.value_vector |->
           r.value_vector[c]
             + ((2 * r.fractional_ord[c] + s + k) \div (2 * r.num_frac))],
      fractional_ord |->
        [c \in DOMAIN r.fractional_ord |->
           (r.fractional_ord[c] + ((k + s) \div 2)) % r.num_frac],
      num_frac |-> r.num_frac]

(* The unit step as the specification words its special case: from an       *)
(* all-integer Region only the flag changes; otherwise the ranks rotate by  *)
(* one and the clocks whose new rank is 0 gain one unit.                    *)
UnitStep(r) ==
  IF r.is_int
  THEN [r EXCEPT !.is_int = FALSE]
  ELSE [is_int |-> TRUE,
        num_frac |-> r.num_frac,
        fractional_ord |->
          [c \in DOMAIN r.fractional_ord |->
             (r.fractional_ord[c] + 1) % r.num_frac],
        value_vector |->
          [c \in DOMAIN r.value_vector |->
             IF (r.fractional_ord[c] + 1) % r.num_frac = 0
             THEN r.value_vector[c] + 1
             ELSE r.value_vector[c]]]

(* C1: in every reachable Region the number of fractional classes m is at   *)
(* least 1 and the set of ranks {F(c)} is exactly {0, ..., m-1}; m = 1 iff  *)
(* all ranks are equal.                                                     *)
C1_RanksDense ==
  /\ num_frac >= 1
  /\ {fractional_ord[c] : c \in clocks} = 0..(num_frac - 1)
  /\ (num_frac = 1) <=> (\A a, b \in clocks : fractional_ord[a] = fractional_ord[b])

(* C2: in every reachable Region, if is_int holds then F(c) = 0 for every   *)
(* clock and m = 1.                                                         *)
C2_IntMeansOneClass ==
  is_int => ((\A c \in clocks : fractional_ord[c] = 0) /\ num_frac = 1)

(* C3: over clocks x, y, z the calls delay(1), reset(x), delay(1),          *)
(* delay(4), reset(y), delay(1), delay(1), reset(z) give after each made    *)
(* the valuation that test_region_value asserts.                            *)
C3_TestScenario ==
  \A i \in 1..Len(TestOps) :
    pc = i => \A c \in clocks : RatEq(val[c], TestValues[i][c])

(* C4: a freshly constructed Region has representative value 0 for every    *)
(* clock.                                                                   *)
C4_FreshIsZero ==
  last.op = "init" => \A c \in clocks : RatEq(val[c], <<0, 1>>)

(* C5: immediately after reset(c) the representative value of c is 0.       *)
C5_ResetValueZero ==
  last.op = "reset" => RatEq(val[last.clock], <<0, 1>>)

(* C6: reset is idempotent: from every reachable Region and for every clock *)
(* c, reset(c); reset(c) leaves the same Region as a single reset(c); in    *)
(* particular a Region just produced by reset(c) is unchanged by reset(c).  *)
C6_ResetIdempotent ==
  /\ \A c \in clocks : reset(reset(region, c), c) = reset(region, c)
  /\ last.op = "reset" => reset(region, last.clock) = region

(* C6 witness: a reset has acted on a Region that was not all-integer and   *)
(* has changed it.                                                          *)
C6_Witness ==
  /\ last.op = "reset"
  /\ ~last.pre.is_int
  /\ region # last.pre
  /\ region = reset(last.pre, last.clock)

(* C7: delay(k) leaves the Region that k successive delay(1) calls leave.   *)
C7_DelayIsIteratedStep ==
  last.op = "delay" => region = delay_times(last.pre, last.steps)

(* C8 as stated: for every k >= 1, k = 1 included, delay(k) produces the    *)
(* closed-form update.                                                      *)
C8_ClosedFormAllK ==
  last.op = "delay" => region = ClosedForm(last.pre, last.steps)

(* C8 as amended: for every k >= 2 delay(k) produces the closed-form        *)
(* update; delay(1) is the unit step (from is_int only the flag changes,    *)
(* otherwise the ranks rotate by one, the clocks whose new rank is 0 gain   *)
(* one unit and is_int becomes true); m is unchanged and is_int' is         *)
(* is_int XOR (k odd) for every k.                                          *)
C8_ClosedFormFromTwo ==
  last.op = "delay" =>
    /\ last.steps >= 2 => region = ClosedForm(last.pre, last.steps)
    /\ last.steps = 1 => region = UnitStep(last.pre)
    /\ num_frac = last.pre.num_frac
    /\ is_int = (last.pre.is_int # (last.steps % 2 = 1))

(* C8 witness: a delay of at least two steps has acted on a Region whose    *)
(* clocks then gained whole units.                                          *)
C8_Witness ==
  /\ last.op = "delay"
  /\ last.steps >= 2
  /\ last.pre.is_int
  /\ \E c \in clocks : value_vector[c] > last.pre.value_vector[c]

(* C9: in every reachable Region is_int holds iff the representative value  *)
(* of every clock is an integer.                                            *)
C9_IntIffAllWhole ==
  is_int <=> (\A c \in clocks : IsWhole(val[c]))

(* C10: in every reachable Region where is_int is false, no clock's         *)
(* representative value is an integer.                                      *)
C10_OpenNeverWhole ==
  ~is_int => (\A c \in clocks : ~IsWhole(val[c]))

C12_RealDelayAgrees ==
  /\ last.op = "delay_float" =>
       \E k \in StepsFor(last.pre, last.time) : region = delay(last.pre, k)
  /\ \A i \in 1..Len(FloatOps) : pcf = i => region = RunOps(i)

SingletonOf(c, n, op) == [kind |-> "Singleton", clock |-> c, rhs |-> n, op |-> op]

(* C14: c ~ n folds per the table: c < n is FALSE for n <= 0, c <= n is     *)
(* FALSE for n < 0, c > n is TRUE for n < 0, c >= n is TRUE for n <= 0, and *)
(* every other case is the Singleton c ~ n.                                 *)
C14_FoldingTable ==
  (made.fn = "compare" /\ made.other.kind = "int") =>
    LET n == made.other.n
        S == SingletonOf(made.clock, n, made.op)
    IN /\ made.op = "LT" => cc = (IF n <= 0 THEN Boolean(FALSE) ELSE S)
       /\ made.op = "LE" => cc = (IF n < 0 THEN Boolean(FALSE) ELSE S)
       /\ made.op = "GT" => cc = (IF n < 0 THEN Boolean(TRUE) ELSE S)
       /\ made.op = "GE" => cc = (IF n <= 0 THEN Boolean(TRUE) ELSE S)

(* C14 witness: c <= 0 has been built and is a Singleton. *)
C14_Witness ==
  /\ made.fn = "compare"
  /\ made.other = IntArg(0)
  /\ made.op = "LE"
  /\ cc.kind = "Singleton"

(* The result r the specification gives for a & b. *)
FoldRule(a, b, r) ==
  IF a = Boolean(TRUE) THEN r = b
  ELSE IF b = Boolean(TRUE) THEN r = a
  ELSE IF a = Boolean(FALSE) \/ b = Boolean(FALSE) THEN r = Boolean(FALSE)
  ELSE r = [kind |-> "And", args |-> <<a, b>>]

(* Operands of every kind, a conjunction among them. *)
AnyKind ==
  Operands \cup
    {[kind |-> "And", args |-> <<SingletonOf("x", 1, "GE"), SingletonOf("y", 1, "LE")>>]}

(* C15: a & b is the other operand when either is TRUE, FALSE when either   *)
(* is FALSE, and otherwise an And of exactly a and b, in both operand       *)
(* orders and for Boolean, Singleton, Diagonal and And operands.            *)
C15_ConjunctionFolds ==
  /\ made.fn = "and" => FoldRule(made.left, made.right, cc)
  /\ cc.kind # "Error" =>
       \A b \in AnyKind :
         FoldRule(cc, b, and(cc, b)) /\ FoldRule(b, cc, and(b, cc))

(* C15 witness: a conjunction has been conjoined with TRUE and is           *)
(* returned.                                                                *)
C15_Witness ==
  /\ made.fn = "and"
  /\ made.left.kind = "And"
  /\ made.right = Boolean(TRUE)
  /\ cc = made.left

(* C16: a SingletonConstraint or DiagonalConstraint with a negative         *)
(* right-hand side raises ValueError and no constraint results; a           *)
(* DiagonalConstraint with a non-negative one is built as it is, never      *)
(* folded to TRUE or FALSE.                                                 *)
C16_NegativeRhsRejected ==
  /\ (made.fn \in {"SingletonConstraint", "DiagonalConstraint"} /\ made.rhs < 0)
       => cc = Error("ValueError")
  /\ (made.fn = "DiagonalConstraint" /\ made.rhs >= 0)
       => cc = [kind |-> "Diagonal",
                lhs |-> DiagonalLHS(made.clock1, made.clock2),
                rhs |-> made.rhs, op |-> made.op]

(* C16 witness: a DiagonalConstraint with a negative right-hand side has    *)
(* been asked for and was refused.                                          *)
C16_Witness ==
  /\ made.fn = "DiagonalConstraint"
  /\ made.rhs < 0
  /\ cc.kind = "Error"

(* C17: comparing a clock with a clock raises TypeError. *)
C17_ClockVsClockTypeError ==
  (made.fn = "compare" /\ made.other.kind = "Clock") => cc = Error("TypeError")

(* The interval from lo to +inf, closed or open at lo. *)
FromLower(left, lo) ==
  [kind |-> "Interval", left |-> left, lower |-> lo, upper |-> Inf, right |-> "OPEN"]

(* C18: for c >= n (c > n) and v = val(c), delays is [max(0, n - v), inf)   *)
(* (resp. open at its lower end).                                           *)
C18_LowerBoundedDelays ==
  (dl.kind = "delays" /\ dl.constraint.kind = "Singleton"
     /\ dl.constraint.op \in {"GE", "GT"}) =>
    LET v == dl.values[dl.constraint.clock]
        lo == RatMax(Rat(0, 1), RatSub(Rat(dl.constraint.rhs, 1), v))
    IN dl.result = FromLower(IF dl.constraint.op = "GE" THEN "CLOSED" ELSE "OPEN", lo)

(* C19: for c <= n and v = val(c), delays is [0, n - v] if n >= v and empty *)
(* otherwise; for c < n it is [0, n - v) if n > v and empty otherwise.      *)
C19_UpperBoundedDelays ==
  (dl.kind = "delays" /\ dl.constraint.kind = "Singleton"
     /\ dl.constraint.op \in {"LE", "LT"}) =>
    LET v == dl.values[dl.constraint.clock]
        n == Rat(dl.constraint.rhs, 1)
        up == RatSub(n, v)
    IN IF dl.constraint.op = "LE"
       THEN dl.result =
              (IF RatLe(v, n)
               THEN [kind |-> "Interval", left |-> "CLOSED", lower |-> Rat(0, 1),
                     upper |-> up, right |-> "CLOSED"]
               ELSE P_empty)
       ELSE dl.result =
              (IF RatLt(v, n)
               THEN [kind |-> "Interval", left |-> "CLOSED", lower |-> Rat(0, 1),
                     upper |-> up, right |-> "OPEN"]
               ELSE P_empty)

(* C19 witness: delays has been evaluated on c < n with v = n, and on       *)
(* nothing is left.                                                         *)
C19_Witness ==
  /\ dl.kind = "delays"
  /\ dl.constraint.kind = "Singleton"
  /\ dl.constraint.op = "LT"
  /\ dl.values[dl.constraint.clock] = Rat(dl.constraint.rhs, 1)
  /\ dl.result = P_empty

(* C20: for every valuation and constraint, delays is a single interval     *)
(* within [0, inf): it is returned, and when not empty its lower end is     *)
(* at least 0.                                                              *)
C20_DelaysNonNegative ==
  dl.kind = "delays" =>
    /\ dl.result.kind = "Interval"
    /\ dl.result # P_empty => RatLe(Rat(0, 1), dl.result.lower)

(* C21: delays(val, p1 & p2) is the intersection of delays(val, p1) and     *)
(* delays(val, p2), for the conjunction as `&` builds it, in both operand   *)
(* orders: checked for the constraint p1 that delays was evaluated on and   *)
(* every operand p2 on which delays returns.                                *)
C21_ConjunctionIsIntersection ==
  dl.kind = "delays" =>
    \A q \in AnyKind :
      LET a == dl.result
          b == delays(dl.values, q)
      IN (a.kind = "Interval" /\ b.kind = "Interval") =>
           /\ delays(dl.values, and(dl.constraint, q)) = intersect(a, b)
           /\ delays(dl.values, and(q, dl.constraint)) = intersect(b, a)

(* C22: for a diagonal constraint c1 - c2 ~ n, delays returns [0, inf) if   *)
(* val(c1) - val(c2) ~ n holds and the empty interval otherwise.            *)
C22_DiagonalDecidedNow ==
  (dl.kind = "delays" /\ dl.constraint.kind = "Diagonal") =>
    LET d == RatSub(dl.values[dl.constraint.lhs.clock1],
                    dl.values[dl.constraint.lhs.clock2])
    IN dl.result =
         (IF to_op(dl.constraint.op, d, Rat(dl.constraint.rhs, 1))
          THEN FromLower("CLOSED", Rat(0, 1))
          ELSE P_empty)

(* The three conditions of a PTA construction on the arguments a. *)
WellFormed(a) ==
  /\ a.init_location \in a.locations
  /\ a.locations \subseteq DOMAIN a.transitions
  /\ a.locations \subseteq DOMAIN a.invariants

RECURSIVE ClocksOf(_)
ClocksOf(constraint) ==
  CASE constraint.kind = "Singleton" -> {constraint.clock}
    [] constraint.kind = "Diagonal" -> {constraint.lhs.clock1, constraint.lhs.clock2}
    [] constraint.kind = "And" ->
         ClocksOf(constraint.args[1]) \cup ClocksOf(constraint.args[2])
    [] OTHER -> {}

(* The clocks that the guards and invariants of the arguments a mention. *)
MentionedClocks(a) ==
  UNION {UNION {ClocksOf(a.transitions[l][e].guard) : e \in DOMAIN a.transitions[l]} :
           l \in DOMAIN a.transitions}
    \cup UNION {ClocksOf(a.invariants[l]) : l \in DOMAIN a.invariants}

(* C24: a construction whose guards or invariants mention a clock that is   *)
(* not declared is reported: no PTA results from it.                        *)
C24_UndeclaredClocksReported ==
  (mcall.op = "PTA" /\ ~(MentionedClocks(mcall.arg) \subseteq mcall.arg.clocks))
    => mcall.result.kind # "PTA"

(* C25: enabled_actions() is the mapping of exactly the actions of the      *)
(* current location whose guard has 0 in delays(valuation, guard), each to  *)
(* its distribution; with the edge a guarded by x >= 2, a is absent in the  *)
(* initial state and present after a delay of 2.                            *)
C25_EnabledActions ==
  mcall.op = "enabled_actions" =>
    LET T == pta.transitions[mloc]
        sat(e) == LET d == delays(value(region), T[e].guard)
                  IN d.kind = "Interval" /\ interval_contains(d, Rat(0, 1))
    IN /\ mcall.result.kind = "Mapping"
       /\ mcall.result.map = [e \in {f \in DOMAIN T : sat(f)} |-> T[e].dist]
       /\ (pta.transitions = Descriptions[1].transitions /\ mloc = "l0") =>
            /\ region = post_init(clocks) => "a" \notin DOMAIN mcall.result.map
            /\ region = delay_float(post_init(clocks), <<2, 1>>) =>
                 "a" \in DOMAIN mcall.result.map

(* C26: invariant_interval() returns delays(current valuation, invariant   *)
(* of the current location), which is PTA.allowed_delays there.             *)
C26_AllowedDelays ==
  mcall.op = "invariant_interval" =>
    /\ mcall.result = delays(value(region), pta.invariants[mloc])
    /\ mcall.result = PTA_allowed_delays(pta, mloc, value(region))

(* C26 witness: the interval has been asked for away from the initial       *)
(* location and the initial Region.                                         *)
C26_Witness ==
  /\ mcall.op = "invariant_interval"
  /\ mloc # pta.init_location
  /\ region # post_init(clocks)
  /\ mcall.result.kind = "Interval"

(* C27: reset() leaves the driver in the initial location with the          *)
(* all-zero Region (I = 0, F = 0, m = 1, is_int) and returns that location  *)
(* with the valuation.                                                      *)
C27_ResetRestoresInitial ==
  mcall.op = "reset" =>
    /\ mloc = pta.init_location
    /\ DOMAIN value_vector = pta.clocks
    /\ \A c \in pta.clocks : value_vector[c] = 0 /\ fractional_ord[c] = 0
    /\ num_frac = 1
    /\ is_int
    /\ mcall.result = [kind |-> "State", location |-> mloc, valuation |-> value(region)]

(* C27 witness: reset() has been called in another location after time      *)
(* had passed.                                                              *)
C27_Witness ==
  /\ mcall.op = "reset"
  /\ mcall.pre.location # pta.init_location
  /\ mcall.pre.region # post_init(clocks)

(* The delay of the latest call lies outside the interval allowed before    *)
(* it.                                                                      *)
DelayOutside ==
  LET iv == delays(value(mcall.pre.region), pta.invariants[mcall.pre.location])
  IN /\ mcall.op = "delay"
     /\ iv.kind = "Interval"
     /\ ~interval_contains(iv, mcall.arg)

C29_RefusedAfterViolation ==
  [][(mcall.op = "delay" /\ mcall.result = None /\ mcall'.op \in {"delay", "step"})
       => (mcall'.result.kind # "State" /\ region' = region /\ mloc' = mloc)]_vars

(* C30: MDP.step with an edge that is not enabled in the current state      *)
(* raises an error and leaves the state of the MDP as it was.               *)
C30_StepNotEnabled ==
  (mcall.op = "MDP.step"
     /\ LET en == PTA_enabled_actions(pta, mcall.pre.location, mcall.pre.valuation)
        IN en.kind = "Mapping" /\ mcall.arg[2] \notin DOMAIN en.map)
    => (mcall.result.kind = "Error" /\ mdp = mcall.pre)

(* C31: MDP.step with an enabled edge moves the MDP to a target of the      *)
(* support of the edge's distribution: the location is the successor, the   *)
(* clocks of the reset set are 0 and the other clocks are as they were.     *)
C31_StepTakesTarget ==
  (mcall.op = "MDP.step"
     /\ LET en == PTA_enabled_actions(pta, mcall.pre.location, mcall.pre.valuation)
        IN en.kind = "Mapping" /\ mcall.arg[2] \in DOMAIN en.map)
    => \E target \in pta.transitions[mcall.pre.location][mcall.arg[2]].dist :
         /\ mdp.location = target.loc
         /\ \A c \in pta.clocks :
              mdp.valuation[c] =
                (IF c \in target.resets THEN Rat(0, 1) ELSE mcall.pre.valuation[c])

(* C32: delay(t) with t < 0 raises an error and leaves the location and     *)
(* the Region as they were; it is never accepted.                           *)
C32_NegativeDelayRaises ==
  (mcall.op = "delay" /\ mcall.arg[1] < 0) =>
    /\ mcall.result.kind = "Error"
    /\ region = mcall.pre.region
    /\ mloc = mcall.pre.location

C33_ValidSupportIsSubset ==
  mcall.op = "validate_support" =>
    (mcall.result <=> \A target \in mcall.dist : target \in mcall.arg)

(* C35: the default delay picker returns a member of delays(val, cc)        *)
(* whenever that interval is not empty, open ends respected.                *)
C35_PickedDelayAllowed ==
  (dl.kind = "pick" /\ dl.interval.kind = "Interval" /\ dl.interval # P_empty) =>
    /\ dl.result.kind = "Float"
    /\ interval_contains(dl.interval, dl.result.value)

(* C34: reset(c) on a Region that is not all-integer leaves the reset clock *)
(* alone on rank 0: afterwards F(c) = 0 and every other clock has F >= 1.   *)
C34_ResetClockAloneOnRankZero ==
  (last.op = "reset" /\ ~last.pre.is_int) =>
    /\ fractional_ord[last.clock] = 0
    /\ \A c \in clocks \ {last.clock} : fractional_ord[c] >= 1

(* C36: reset(c) changes the integer part of no other clock; afterwards     *)
(* I(c) = 0 and is_int is true.                                             *)
C36_ResetTouchesOneClock ==
  /\ last.op = "reset" =>
       /\ value_vector[last.clock] = 0
       /\ is_int
       /\ \A c \in clocks \ {last.clock} :
            value_vector[c] = last.pre.value_vector[c]
  /\ \A c \in clocks :
       LET r == reset(region, c)
       IN /\ r.value_vector[c] = 0
          /\ r.is_int
          /\ \A d \in clocks \ {c} : r.value_vector[d] = value_vector[d]

(* C36 witness: a reset has acted on a Region that was not all-integer,     *)
(* the reset clock had a positive integer part and another clock keeps one. *)
C36_Witness ==
  /\ last.op = "reset"
  /\ ~last.pre.is_int
  /\ last.pre.value_vector[last.clock] > 0
  /\ \E c \in clocks \ {last.clock} : value_vector[c] > 0

(* The difference of two clocks' representative values, as a fraction. *)
Difference(v, a, b) == <<v[a][1] * v[b][2] - v[b][1] * v[a][2], v[a][2] * v[b][2]>>

(* C37: delay(k) advances all clocks by the same amount: for every pair of  *)
(* clocks a, b the difference value()(a) - value()(b) is the same before    *)
(* and after.                                                               *)
C37_DelayKeepsDifferences ==
  last.op = "delay" =>
    \A a \in clocks, b \in clocks :
      RatEq(Difference(val, a, b), Difference(value(last.pre), a, b))

(* C37 witness: a delay of at least two steps has acted on a Region with    *)
(* two clocks of different values and has moved both.                       *)
C37_Witness ==
  /\ last.op = "delay"
  /\ last.steps >= 2
  /\ \E a \in clocks, b \in clocks :
       /\ ~RatEq(value(last.pre)[a], value(last.pre)[b])
       /\ ~RatEq(val[a], value(last.pre)[a])
       /\ ~RatEq(val[b], value(last.pre)[b])

(* C38: after delay(k), k >= 1, the representative value of every clock is  *)
(* strictly greater than before.                                            *)
C38_TimeMovesForward ==
  last.op = "delay" =>
    \A c \in clocks :
      value(last.pre)[c][1] * val[c][2] < val[c][1] * value(last.pre)[c][2]

(* C39: delay(2 * m) increases I(c) by exactly 1 for every clock and leaves *)
(* F, m and is_int unchanged.                                               *)
C39_FullPeriodIsOneUnit ==
  /\ delay(region, 2 * num_frac) =
       [region EXCEPT !.value_vector = [c \in clocks |-> value_vector[c] + 1]]
  /\ (last.op = "delay" /\ last.steps = 2 * last.pre.num_frac) =>
       region = [last.pre EXCEPT
                   !.value_vector = [c \in clocks |-> last.pre.value_vector[c] + 1]]

(* C39 witness: a delay of 2 * m steps has acted on a Region with several   *)
(* fractional classes that was not all-integer, with a clock of rank > 0.   *)
C39_Witness ==
  /\ last.op = "delay"
  /\ last.steps = 2 * last.pre.num_frac
  /\ last.pre.num_frac >= 2
  /\ ~last.pre.is_int
  /\ \E c \in clocks : last.pre.fractional_ord[c] > 0

====
